---- MODULE Spec2Model ----
(***************************************************************************)
(* Model of CopyNodesCommand (editor command that copies a selection of    *)
(* scene nodes into a destination scene, with dual-output node maps).      *)
(*                                                                         *)
(* The command's constructor, execute() and rollback() are translated      *)
(* from the command's source.  Its collaborators (Scene, Selection,        *)
(* DualOutputService views, SceneCollectionsService, Source) are modelled  *)
(* from their contracts in the specification, section 6.                   *)
(***************************************************************************)
EXTENDS Integers, Sequences, FiniteSets, TLC

\* ---------------------------------------------------------------- bounds
\* number of execute() calls of one command (execute, rollback, redo, ...)
MaxRuns == 2
\* number of mutations other actors make between construction and execute()
MaxEnvSteps == 2

\* ------------------------------------------------------------- constants
\* JavaScript's undefined / null (as an id, a table value, a node-map key)
Undef == 0
\* the scene of the selection (selection.sceneId) and the other scene
SrcScene == "A"
Scenes == {"A", "B"}
\* the nodes of the source scene, the nodes of scene B, the sources
OrigNodes == {1, 2, 3, 4}
OtherNodes == {5, 6}
OrigSources == {1, 2}
FirstNewNode == 7
FirstNewSource == 3
\* the display shown when dual output mode is off
ActiveDisplay == "horizontal"
\* the value of the constructor's optional display parameter when not given
NoDisplay == "none"

EmptyMap == [k \in {} |-> Undef]

VARIABLES
  nodes,            \* scene graph: node id -> node, for every existing node
  order,            \* scene id -> the scene's flat node-id order
  nodeMaps,         \* scene id -> node map (horizontal id -> vertical id)
  sources,          \* ids of the existing sources
  doNotDuplicate,   \* ids of the sources marked non-duplicable
  nextNodeId,       \* id generator of the scene graph
  nextSourceId,     \* id generator of the sources service
  dualOutputMode,   \* dualOutputService.views.dualOutputMode
  selectedIds,      \* the Selection's node ids, in selection order
  frozen,           \* the Selection's frozen flag
  destSceneId,      \* constructor parameter
  duplicateSources, \* constructor parameter
  display,          \* constructor parameter (NoDisplay when not given)
  hasNodeMap,       \* command field
  nodeIdsMap,       \* command field: original node id -> new node id
  sourceIdsMap,     \* command field: [null, map: original -> new source id]
  pc,               \* "selecting", "constructed", "executed", "rolledback", "failed"
  runs,             \* number of execute() calls so far
  envSteps,         \* number of mutations by other actors so far
  insertedNodes,    \* the value returned by the last execute()
  hist              \* history of the last execute(), for stating properties

vars == << nodes, order, nodeMaps, sources, doNotDuplicate, nextNodeId,
           nextSourceId, dualOutputMode, selectedIds, frozen, destSceneId,
           duplicateSources, display, hasNodeMap, nodeIdsMap, sourceIdsMap,
           pc, runs, envSteps, insertedNodes, hist >>

sceneVars == << nodes, order, nodeMaps, sources, nextNodeId, nextSourceId >>
paramVars == << destSceneId, duplicateSources, display, doNotDuplicate >>
cmdVars == << hasNodeMap, nodeIdsMap, sourceIdsMap, insertedNodes, hist >>

\* ------------------------------------------------------------ utilities
Get(map, k) == IF k \in DOMAIN map THEN map[k] ELSE Undef

Range(f) == { f[k] : k \in DOMAIN f }

SeqToSet(s) == { s[i] : i \in 1..Len(s) }

RECURSIVE Compact(_)
\* lodash compact: drops the falsy elements
Compact(s) ==
  IF s = << >> THEN << >>
  ELSE IF Head(s) = Undef THEN Compact(Tail(s))
       ELSE << Head(s) >> \o Compact(Tail(s))

RECURSIVE Without(_, _)
Without(s, id) ==
  IF s = << >> THEN << >>
  ELSE IF Head(s) = id THEN Without(Tail(s), id)
       ELSE << Head(s) >> \o Without(Tail(s), id)

\* ------------------------------------------------- the scenes at start-up
Folder(scene, parent, disp) ==
  [scene |-> scene, kind |-> "folder", parent |-> parent, sourceId |-> Undef,
   display |-> disp, pos |-> << 0, 0 >>]

Item(scene, parent, src, disp) ==
  [scene |-> scene, kind |-> "item", parent |-> parent, sourceId |-> src,
   display |-> disp, pos |-> << 5, 5 >>]

\* scene B: a horizontal item and a vertical item
OtherSceneNodes ==
  (5 :> Item("B", Undef, 2, "horizontal")) @@ (6 :> Item("B", Undef, 2, "vertical"))

\* a vanilla source scene: folder 1 > folder 2 > item 3, and a root item 4
ChainNodes ==
  (1 :> Folder("A", Undef, "horizontal")) @@ (2 :> Folder("A", 1, "horizontal"))
  @@ (3 :> Item("A", 2, 1, "horizontal")) @@ (4 :> Item("A", Undef, 2, "horizontal"))

\* a dual output source scene: folder 1 > item 2 with the vertical twins 3 > 4
DualNodes ==
  (1 :> Folder("A", Undef, "horizontal")) @@ (2 :> Item("A", 1, 1, "horizontal"))
  @@ (3 :> Folder("A", Undef, "vertical")) @@ (4 :> Item("A", 3, 1, "vertical"))

DualNodeMap == (1 :> 3) @@ (2 :> 4)

OtherNodeMap == (5 :> 6)

Shapes ==
  { [nodes |-> ChainNodes @@ OtherSceneNodes, map |-> EmptyMap],
    [nodes |-> DualNodes @@ OtherSceneNodes, map |-> DualNodeMap] }

\* the history of an execute() that has not run
NoHist ==
  [ran |-> FALSE, branch |-> "none", mode |-> FALSE, copied |-> << >>,
   registered |-> << >>, failed |-> FALSE, preNodes |-> EmptyMap,
   preOrder |-> [s \in Scenes |-> << >>], preMaps |-> [s \in Scenes |-> EmptyMap],
   preSources |-> {}, preIds |-> EmptyMap,
   ctorMode |-> FALSE, ctorMap |-> EmptyMap, immediate |-> << >>,
   first |-> [ids |-> EmptyMap, nodes |-> EmptyMap, order |-> << >>,
              map |-> EmptyMap]]

Init ==
  /\ \E shape \in Shapes, otherMap \in {EmptyMap, OtherNodeMap} :
       /\ nodes = shape.nodes
       /\ nodeMaps = [s \in Scenes |-> IF s = SrcScene THEN shape.map ELSE otherMap]
  /\ order = [s \in Scenes |-> IF s = SrcScene THEN << 1, 2, 3, 4 >> ELSE << 5, 6 >>]
  /\ sources = OrigSources
  /\ doNotDuplicate \in {{}, {1}}
  /\ nextNodeId = FirstNewNode
  /\ nextSourceId = FirstNewSource
  /\ dualOutputMode \in BOOLEAN
  /\ selectedIds = << >>
  /\ frozen = FALSE
  /\ destSceneId \in Scenes
  /\ duplicateSources \in BOOLEAN
  /\ display \in {NoDisplay, "horizontal", "vertical"}
  /\ hasNodeMap = FALSE
  /\ nodeIdsMap = EmptyMap
  /\ sourceIdsMap = [null |-> TRUE, map |-> EmptyMap]
  /\ pc = "selecting"
  /\ runs = 0
  /\ envSteps = 0
  /\ insertedNodes = << >>
  /\ hist = NoHist

\* ------------------------------------------------ DualOutputService.views
HasNodeMap(maps, sceneId) == DOMAIN maps[sceneId] # {}

GetNodeDisplay(maps, nodeId, sceneId) ==
  IF nodeId \in Range(maps[sceneId]) THEN "vertical" ELSE "horizontal"

GetVerticalNodeId(maps, nodeId, sceneId) == Get(maps[sceneId], nodeId)

\* ------------------------------------------------ SceneCollectionsService
CreateNodeMapEntry(maps, sceneId, horizontalNodeId, verticalNodeId) ==
  [maps EXCEPT ![sceneId] = (horizontalNodeId :> verticalNodeId) @@ @]

RemoveNodeMap(maps, sceneId) == [maps EXCEPT ![sceneId] = EmptyMap]

\* ------------------------------------------------------------- Selection
\* the selections offered: the user picks nodes going down or going up the
\* scene, so the selection order is not the scene order
Monotone(s) ==
  \/ \A i \in 1..Len(s), j \in 1..Len(s) : i < j => s[i] < s[j]
  \/ \A i \in 1..Len(s), j \in 1..Len(s) : i < j => s[i] > s[j]

\* the user adds a node of the source scene to the selection; a frozen
\* selection rejects the change
Select(n) ==
  /\ pc \in {"selecting", "constructed"}
  /\ ~frozen
  /\ n \in OrigNodes \ SeqToSet(selectedIds)
  /\ Monotone(Append(selectedIds, n))
  /\ selectedIds' = Append(selectedIds, n)
  /\ UNCHANGED << sceneVars, paramVars, cmdVars, dualOutputMode, frozen, pc,
                  runs, envSteps >>

\* selection.getNodes(includeDualOutput): every selected node, or only the
\* selected nodes of the active display
SelectionGetNodes(maps, includeAll) ==
  IF includeAll THEN selectedIds
  ELSE SelectSeq(selectedIds,
                 LAMBDA n : GetNodeDisplay(maps, n, SrcScene) = ActiveDisplay)

\* isDualOutputMode && !this.hasNodeMap
IsMigration(isDualOutputMode, hasMap) == isDualOutputMode /\ ~hasMap

\* the nodes the creation pass iterates over
NodesToCopy(maps, migration, isDualOutputMode) ==
  IF migration THEN SelectionGetNodes(maps, TRUE)
  ELSE SelectionGetNodes(maps, isDualOutputMode)

\* ----------------------------------------------------------- constructor
\* a constructor that leaves the selection open
ConstructorFreeze_Skipped == FALSE

\* this.selection.freeze()
ConstructorFreeze == TRUE

Construct ==
  /\ pc = "selecting"
  /\ frozen' = ConstructorFreeze
  /\ hasNodeMap' = HasNodeMap(nodeMaps, SrcScene)
  /\ pc' = "constructed"
  /\ hist' = [hist EXCEPT
               !.ctorMode = dualOutputMode,
               !.ctorMap = nodeMaps[SrcScene],
               !.immediate =
                  NodesToCopy(nodeMaps,
                              IsMigration(dualOutputMode, HasNodeMap(nodeMaps, SrcScene)),
                              dualOutputMode)]
  /\ UNCHANGED << sceneVars, paramVars, dualOutputMode, selectedIds, nodeIdsMap,
                  sourceIdsMap, insertedNodes, runs, envSteps >>

\* ------------------------------------------------------- Scene, Source
\* scene.getNode(id): the node, or null when the scene has no such node
SceneHasNode(ns, sceneId, id) ==
  /\ id \in DOMAIN ns
  /\ ns[id].scene = sceneId

\* scene.createFolder / scene.addSource with { id }: the id given, or a fresh one
NewNodeId(hint, next) == IF hint # Undef THEN hint ELSE next

\* node.remove()
RemoveNode(st, id) ==
  [st EXCEPT !.nodes = [k \in DOMAIN st.nodes \ {id} |-> st.nodes[k]],
             !.order = [s \in Scenes |-> Without(st.order[s], id)]]

\* the sources still referenced by an item: a source is reclaimed when the
\* last item referencing it is removed
ReferencedSources(ns) ==
  { ns[k].sourceId : k \in { j \in DOMAIN ns : ns[j].kind = "item" } }

RECURSIVE SourcesOf(_, _)
\* selection.getSources(): the distinct sources of the selected items
SourcesOf(ns, ids) ==
  IF ids = << >> THEN << >>
  ELSE LET rest == SourcesOf(ns, Tail(ids))
           n == Head(ids)
       IN IF ns[n].kind = "item"
          THEN << ns[n].sourceId >> \o Without(rest, ns[n].sourceId)
          ELSE rest

\* ----------------------------------------------------- execute(), part 1
\* source.duplicate(id): null for a source marked do-not-duplicate
Duplicate(sourceId, hint, next) ==
  IF sourceId \in doNotDuplicate THEN Undef ELSE NewNodeId(hint, next)

\* a table that records the duplicate even when there is none
DupSourceId_NoFallback(dup, sourceId) == dup

\* this.sourceIdsMap[source.sourceId] = dup ? dup.sourceId : source.sourceId
DupSourceId(dup, sourceId) == IF dup # Undef THEN dup ELSE sourceId

RECURSIVE DuplicatePass(_, _)
\* this.selection.getSources().forEach(...) over d = [sources, next, map]
DuplicatePass(srcs, d) ==
  IF srcs = << >> THEN d
  ELSE LET s == Head(srcs)
           dup == Duplicate(s, Get(d.map, s), d.next)
           fresh == dup # Undef /\ dup = d.next
       IN DuplicatePass(Tail(srcs),
            [sources |-> IF dup # Undef THEN d.sources \cup {dup} ELSE d.sources,
             next |-> IF fresh THEN d.next + 1 ELSE d.next,
             map |-> (s :> DupSourceId(dup, s)) @@ d.map])

\* the source a copied item is bound to
ItemSourceId(sidMap, sourceId) ==
  IF ~sidMap.null THEN Get(sidMap.map, sourceId) ELSE sourceId

\* this.display ?? getNodeDisplay(node.id, this.selection.sceneId)
CopyDisplay(maps, n) ==
  IF display # NoDisplay THEN display ELSE GetNodeDisplay(maps, n, SrcScene)

\* the migration case registers an entry only for the forced display vertical
MigrationRegisters == display = "vertical"

\* item.setTransform({ position: { x: 0, y: 0 } }) of the migration case
MigrationPosition(pos) == IF display = "vertical" THEN << 0, 0 >> ELSE pos

\* an id table keyed by the new id
RecordNodeId_Swapped(ids, n, newId) == (newId :> n) @@ ids

\* the id table after a node was created
RecordNodeId(ids, n, newId) == (n :> newId) @@ ids

\* one iteration of either creation loop over
\* st = [nodes, order, maps, ids, next, inserted, registered, failed]
CreateNode(st, n, sidMap, migration) ==
  LET orig == st.nodes[n]
      hint == Get(st.ids, n)
      newId == NewNodeId(hint, st.next)
      disp == CopyDisplay(st.maps, n)
      created ==
        IF orig.kind = "folder"
        THEN [scene |-> destSceneId, kind |-> "folder", parent |-> Undef,
              sourceId |-> Undef, display |-> disp, pos |-> << 0, 0 >>]
        ELSE [scene |-> destSceneId, kind |-> "item", parent |-> Undef,
              sourceId |-> ItemSourceId(sidMap, orig.sourceId), display |-> disp,
              pos |-> IF migration THEN MigrationPosition(orig.pos) ELSE orig.pos]
      register == migration /\ MigrationRegisters
  IN [st EXCEPT
        !.nodes = (newId :> created) @@ @,
        !.order = [@ EXCEPT ![destSceneId] = << newId >> \o @],
        !.maps = IF register THEN CreateNodeMapEntry(@, destSceneId, n, newId) ELSE @,
        !.registered = IF register
                       THEN Append(@, [pass |-> "create", key |-> n, value |-> newId])
                       ELSE @,
        !.ids = RecordNodeId(@, n, newId),
        !.next = IF newId = st.next THEN st.next + 1 ELSE st.next,
        !.inserted = Append(@, newId)]

RECURSIVE CreatePass(_, _, _, _)
CreatePass(ns, st, sidMap, migration) ==
  IF ns = << >> THEN st
  ELSE CreatePass(Tail(ns), CreateNode(st, Head(ns), sidMap, migration),
                  sidMap, migration)

\* ----------------------------------------------------- execute(), part 2
\* a relinking that looks the parent up by the original parent id
MappedParentId_Unmapped(st, n) ==
  LET p == st.nodes[n].parent
  IN IF p # Undef /\ SceneHasNode(st.nodes, destSceneId, p) THEN p ELSE Undef

\* this.nodeIdsMap[node.parentId] ? scene.getNode(...) : null, as an id
MappedParentId(st, n) ==
  LET p == Get(st.ids, st.nodes[n].parent)
  IN IF p # Undef /\ SceneHasNode(st.nodes, destSceneId, p) THEN p ELSE Undef

\* one iteration of the relinking loop; mappedNode.setParent throws when
\* mappedNode is null
RelinkNode(st, n) ==
  LET mapped == Get(st.ids, n)
      mappedParent == MappedParentId(st, n)
  IN IF mappedParent = Undef THEN st
     ELSE IF ~SceneHasNode(st.nodes, destSceneId, mapped)
          THEN [st EXCEPT !.failed = TRUE]
          ELSE [st EXCEPT !.nodes[mapped].parent = mappedParent]

RECURSIVE RelinkPass(_, _)
RelinkPass(ns, st) ==
  IF ns = << >> \/ st.failed THEN st
  ELSE RelinkPass(Tail(ns), RelinkNode(st, Head(ns)))

\* const newVerticalNodeId = this.nodeIdsMap[origVerticalNodeId]
NewVerticalNodeId(ids, origVerticalNodeId) == Get(ids, origVerticalNodeId)

\* one step of the map() over the source scene's order, for a scene with a
\* node map: registers an entry for a horizontal node
OrderStep(st, origNodeId) ==
  IF GetNodeDisplay(st.maps, origNodeId, SrcScene) = "horizontal"
  THEN LET origVerticalNodeId == GetVerticalNodeId(st.maps, origNodeId, SrcScene)
           newHorizontalNodeId == Get(st.ids, origNodeId)
           newVerticalNodeId == NewVerticalNodeId(st.ids, origVerticalNodeId)
       IN [st EXCEPT
             !.maps = CreateNodeMapEntry(@, destSceneId, newHorizontalNodeId,
                                         newVerticalNodeId),
             !.registered = Append(@, [pass |-> "order", key |-> newHorizontalNodeId,
                                       value |-> newVerticalNodeId])]
  ELSE st

RECURSIVE OrderWalk(_, _)
OrderWalk(ids, st) ==
  IF ids = << >> THEN st
  ELSE OrderWalk(Tail(ids), OrderStep(st, Head(ids)))

\* the source scene's order mapped through the id table
MappedOrder(ids, srcOrder) ==
  [i \in 1..Len(srcOrder) |-> Get(ids, srcOrder[i])]

\* an order that puts the new nodes after the existing ones
NewNodesOrder_Appended(mapped, initialNodeOrder) ==
  initialNodeOrder \o Compact(mapped)

\* order.concat(initialNodeOrder)
NewNodesOrder(mapped, initialNodeOrder) == Compact(mapped) \o initialNodeOrder

\* both branches of the order reconstruction
OrderPass(st, withNodeMap, initialNodeOrder) ==
  LET srcOrder == st.order[SrcScene]
      walked == IF withNodeMap THEN OrderWalk(srcOrder, st) ELSE st
  IN [walked EXCEPT
        !.order[destSceneId] =
           NewNodesOrder(MappedOrder(st.ids, srcOrder), initialNodeOrder)]

\* what execute() leaves behind: the id table and the destination scene's
\* nodes with their parents, its order and its node map
DestinationState(ids, ns, ord, maps) ==
  [ids |-> ids,
   nodes |-> [k \in { j \in DOMAIN ns : ns[j].scene = destSceneId } |-> ns[k].parent],
   order |-> ord[destSceneId],
   map |-> maps[destSceneId]]

Execute ==
  /\ pc \in {"constructed", "rolledback"}
  /\ runs < MaxRuns
  /\ LET initialNodeOrder == order[destSceneId]
         isDualOutputMode == dualOutputMode
         d == IF duplicateSources
              THEN DuplicatePass(SourcesOf(nodes, selectedIds),
                                 [sources |-> sources, next |-> nextSourceId,
                                  map |-> EmptyMap])
              ELSE [sources |-> sources, next |-> nextSourceId,
                    map |-> sourceIdsMap.map]
         sidMap == IF duplicateSources THEN [null |-> FALSE, map |-> d.map]
                   ELSE sourceIdsMap
         migration == IsMigration(isDualOutputMode, hasNodeMap)
         toCopy == NodesToCopy(nodeMaps, migration, isDualOutputMode)
         st0 == [nodes |-> nodes, order |-> order, maps |-> nodeMaps,
                 ids |-> nodeIdsMap, next |-> nextNodeId, inserted |-> << >>,
                 registered |-> << >>, failed |-> FALSE]
         st1 == CreatePass(toCopy, st0, sidMap, migration)
         withNodeMap == migration \/ hasNodeMap
         st2 == RelinkPass(selectedIds, st1)
         st3 == IF st2.failed THEN st2 ELSE OrderPass(st2, withNodeMap, initialNodeOrder)
     IN /\ nodes' = st3.nodes
        /\ order' = st3.order
        /\ nodeMaps' = st3.maps
        /\ nodeIdsMap' = st3.ids
        /\ nextNodeId' = st3.next
        /\ sources' = d.sources
        /\ nextSourceId' = d.next
        /\ sourceIdsMap' = sidMap
        /\ hasNodeMap' = withNodeMap
        /\ insertedNodes' = IF st3.failed THEN << >> ELSE st3.inserted
        /\ pc' = IF st3.failed THEN "failed" ELSE "executed"
        /\ hist' = [hist EXCEPT
                    !.ran = TRUE,
                    !.branch = IF migration THEN "migration" ELSE "ordinary",
                    !.mode = isDualOutputMode,
                    !.copied = toCopy,
                    !.registered = st3.registered,
                    !.failed = st3.failed,
                    !.preNodes = nodes, !.preOrder = order, !.preMaps = nodeMaps,
                    !.preSources = sources, !.preIds = nodeIdsMap,
                    !.first = IF runs = 0
                              THEN DestinationState(st3.ids, st3.nodes, st3.order,
                                                    st3.maps)
                              ELSE @]
  /\ runs' = runs + 1
  /\ UNCHANGED << paramVars, dualOutputMode, selectedIds, frozen, envSteps >>

\* --------------------------------------------------------------- rollback
\* a rollback that walks the keys of the id table
RollbackNodeIds_Keys(ids) == DOMAIN ids

\* Object.values(this.nodeIdsMap)
RollbackNodeIds(ids) == Range(ids)

\* a rollback that removes the node map of the selection's scene
RollbackNodeMapScene_Source == SrcScene

\* the scene whose node map rollback() tests and removes (scene.id)
RollbackNodeMapScene == destSceneId

RECURSIVE RemoveAll(_, _)
\* forEach(nodeId => { const node = scene.getNode(nodeId); if (node) node.remove() })
RemoveAll(ids, st) ==
  IF ids = {} THEN st
  ELSE LET id == CHOOSE x \in ids : TRUE
       IN RemoveAll(ids \ {id},
                    IF SceneHasNode(st.nodes, destSceneId, id)
                    THEN RemoveNode(st, id) ELSE st)

Rollback ==
  /\ pc = "executed"
  /\ LET st == RemoveAll(RollbackNodeIds(nodeIdsMap), [nodes |-> nodes, order |-> order])
         sceneId == RollbackNodeMapScene
     IN /\ nodes' = st.nodes
        /\ order' = st.order
        /\ sources' = sources \cap ReferencedSources(st.nodes)
        /\ nodeMaps' = IF HasNodeMap(nodeMaps, sceneId)
                       THEN RemoveNodeMap(nodeMaps, sceneId) ELSE nodeMaps
  /\ pc' = "rolledback"
  /\ UNCHANGED << paramVars, cmdVars, nextNodeId, nextSourceId, dualOutputMode,
                  selectedIds, frozen, runs, envSteps >>

\* ------------------------------------------------------------ other actors
\* another actor toggles dual output mode between construction and execute()
ToggleDualOutput ==
  /\ pc = "constructed"
  /\ envSteps < MaxEnvSteps
  /\ dualOutputMode' = ~dualOutputMode
  /\ envSteps' = envSteps + 1
  /\ UNCHANGED << sceneVars, paramVars, cmdVars, selectedIds, frozen, pc, runs >>

\* another actor moves the bottom node of the source scene to the top
MoveNode ==
  /\ pc = "constructed"
  /\ envSteps < MaxEnvSteps
  /\ LET o == order[SrcScene]
     IN order' = [order EXCEPT ![SrcScene] = << o[Len(o)] >> \o SubSeq(o, 1, Len(o) - 1)]
  /\ envSteps' = envSteps + 1
  /\ UNCHANGED << nodes, nodeMaps, sources, nextNodeId, nextSourceId, paramVars,
                  cmdVars, dualOutputMode, selectedIds, frozen, pc, runs >>

\* another actor assigns node v of the source scene to the vertical display
\* as the twin of the horizontal node h (a vertical node lives under a
\* vertical folder or at the root)
AssignDisplay(h, v) ==
  /\ pc = "constructed"
  /\ envSteps < MaxEnvSteps
  /\ h # v
  /\ nodes[h].kind = nodes[v].kind
  /\ h \notin DOMAIN nodeMaps[SrcScene] \cup Range(nodeMaps[SrcScene])
  /\ v \notin DOMAIN nodeMaps[SrcScene] \cup Range(nodeMaps[SrcScene])
  /\ \/ nodes[v].parent = Undef
     \/ GetNodeDisplay(nodeMaps, nodes[v].parent, SrcScene) = "vertical"
  /\ \A c \in OrigNodes : nodes[c].parent # v
  /\ nodeMaps' = CreateNodeMapEntry(nodeMaps, SrcScene, h, v)
  /\ nodes' = [nodes EXCEPT ![v].display = "vertical"]
  /\ envSteps' = envSteps + 1
  /\ UNCHANGED << order, sources, nextNodeId, nextSourceId, paramVars, cmdVars,
                  dualOutputMode, selectedIds, frozen, pc, runs >>

Next ==
  \/ \E n \in OrigNodes : Select(n)
  \/ Construct
  \/ Execute
  \/ Rollback
  \/ ToggleDualOutput
  \/ MoveNode
  \/ \E h \in OrigNodes, v \in OrigNodes : AssignDisplay(h, v)

Spec == Init /\ [][Next]_vars

\* ------------------------------------------------------------ properties
\* the node ids of a scene in a scene graph
NodesOfScene(ns, sceneId) == { k \in DOMAIN ns : ns[k].scene = sceneId }

\* the position of x in the sequence s
PosIn(s, x) == CHOOSE i \in 1..Len(s) : s[i] = x

\* the original node a created node is the copy of, by the id table
OrigOf(newId) == CHOOSE o \in DOMAIN nodeIdsMap : nodeIdsMap[o] = newId

\* the original nodes the last execute() copied
CopiedSet == SeqToSet(hist.copied)

\* C1: execute() then rollback() leaves the destination scene with exactly
\* the node set and the flat node order it had before execute().
C1_RollbackRestoresNodes ==
  pc = "rolledback" =>
    /\ NodesOfScene(nodes, destSceneId) = NodesOfScene(hist.preNodes, destSceneId)
    /\ order[destSceneId] = hist.preOrder[destSceneId]

C1_Witness ==
  /\ pc = "rolledback"
  /\ Len(hist.copied) >= 2
  /\ hist.preOrder[destSceneId] # << >>
  /\ nextNodeId > FirstNewNode

\* C2: after execute() the destination's order is the created nodes, ordered
\* as their originals are in the source scene's order, followed by the
\* destination's order before execute(); also when source = destination.
C2_NewNodesPrependedInSourceOrder ==
  pc = "executed" =>
    LET o == order[destSceneId]
        k == Len(insertedNodes)
        pre == hist.preOrder[destSceneId]
    IN /\ Len(o) = k + Len(pre)
       /\ SubSeq(o, k + 1, Len(o)) = pre
       /\ { o[i] : i \in 1..k } = SeqToSet(insertedNodes)
       /\ \A i \in 1..k, j \in 1..k :
            i < j => PosIn(hist.preOrder[SrcScene], OrigOf(o[i]))
                       < PosIn(hist.preOrder[SrcScene], OrigOf(o[j]))

C2_Witness ==
  /\ pc = "executed"
  /\ destSceneId = SrcScene
  /\ Len(insertedNodes) >= 3
  /\ selectedIds[1] > selectedIds[2]
  /\ hist.preOrder[SrcScene] # << 1, 2, 3, 4 >>

Registered(pass) ==
  { << hist.registered[i].key, hist.registered[i].value >> :
      i \in { j \in 1..Len(hist.registered) : hist.registered[j].pass = pass } }

\* C4: in the migration case with forced display vertical the whole
\* execute() registers exactly one node-map entry per copied node
\* (original id -> new id) and no other entry, and every copied item is at
\* position (0,0).
C4_MigrationOneEntryPerNode ==
  (pc = "executed" /\ hist.branch = "migration" /\ display = "vertical") =>
    /\ Len(hist.registered) = Len(hist.copied)
    /\ Registered("create") \cup Registered("order")
         = { << n, nodeIdsMap[n] >> : n \in CopiedSet }
    /\ \A n \in CopiedSet :
         nodes[nodeIdsMap[n]].kind = "item" => nodes[nodeIdsMap[n]].pos = << 0, 0 >>

\* C5: with a node map in the destination and dual output mode active,
\* copying a horizontal node together with its vertical twin leaves the
\* destination's node map with the entry new horizontal id -> new vertical
\* id; and no entry of the order pass holds an id of an original node.
C5_TwinsPairedByNewIds ==
  pc = "executed" =>
    /\ (HasNodeMap(hist.preMaps, destSceneId) /\ hist.mode) =>
         \A h \in CopiedSet :
           LET v == Get(hist.preMaps[SrcScene], h)
           IN (GetNodeDisplay(hist.preMaps, h, SrcScene) = "horizontal"
               /\ v \in CopiedSet)
              => /\ << nodeIdsMap[h], nodeIdsMap[v] >> \in Registered("order")
                 /\ Get(nodeMaps[destSceneId], nodeIdsMap[h]) = nodeIdsMap[v]
    /\ \A e \in Registered("order") :
         /\ e[1] \notin NodesOfScene(hist.preNodes, SrcScene)
         /\ e[2] \notin NodesOfScene(hist.preNodes, SrcScene)

\* C6: every node-map entry execute() registers links an existing
\* horizontal node to an existing vertical node: never a node to itself,
\* never two nodes of one display, never an undefined key or value.
C6_EntriesLinkHorizontalToVertical ==
  pc = "executed" =>
    \A e \in Registered("create") \cup Registered("order") :
      /\ e[1] # Undef
      /\ e[2] # Undef
      /\ e[1] # e[2]
      /\ e[1] \in DOMAIN nodes
      /\ e[2] \in DOMAIN nodes
      /\ nodes[e[1]].display = "horizontal"
      /\ nodes[e[2]].display = "vertical"

\* the distinct sources of the selected items
SelectedSources ==
  { hist.preNodes[n].sourceId :
      n \in { m \in SeqToSet(selectedIds) : hist.preNodes[m].kind = "item" } }

\* C7: with deep duplication the source table has exactly the distinct
\* sources of the selection as keys; a non-duplicable source maps to itself
\* and no source is created for it; every other source maps to its own new
\* source; every copied item is bound to the table's value for its original
\* source, or to the original source when duplication was not requested.
C7_SourcesDuplicatedOnce ==
  pc = "executed" =>
    /\ duplicateSources =>
         /\ ~sourceIdsMap.null
         /\ DOMAIN sourceIdsMap.map = SelectedSources
         /\ \A s \in SelectedSources :
              IF s \in doNotDuplicate THEN sourceIdsMap.map[s] = s
              ELSE /\ sourceIdsMap.map[s] \in sources \ hist.preSources
                   /\ \A t \in SelectedSources \ {s} :
                        sourceIdsMap.map[t] # sourceIdsMap.map[s]
         /\ sources \ hist.preSources
              = { sourceIdsMap.map[s] : s \in SelectedSources \ doNotDuplicate }
         /\ \A n \in CopiedSet :
              nodes[nodeIdsMap[n]].kind = "item" =>
                nodes[nodeIdsMap[n]].sourceId = sourceIdsMap.map[hist.preNodes[n].sourceId]
    /\ ~duplicateSources =>
         /\ sources = hist.preSources
         /\ \A n \in CopiedSet :
              nodes[nodeIdsMap[n]].kind = "item" =>
                nodes[nodeIdsMap[n]].sourceId = hist.preNodes[n].sourceId

C7_Witness ==
  /\ pc = "executed"
  /\ duplicateSources
  /\ \E n \in CopiedSet, m \in CopiedSet :
       /\ hist.preNodes[n].kind = "item"
       /\ hist.preNodes[m].kind = "item"
       /\ hist.preNodes[n].sourceId \in doNotDuplicate
       /\ hist.preNodes[m].sourceId \notin doNotDuplicate
       /\ nodes[nodeIdsMap[n]].sourceId = hist.preNodes[n].sourceId
       /\ nodes[nodeIdsMap[m]].sourceId \notin hist.preSources

\* C8: rollback() removes the whole node map of the destination scene when
\* that scene has one at rollback time, and otherwise leaves it as it was
\* before execute(); it changes no other scene's node map, and no entry
\* registered by execute() survives it.
C8_RollbackRemovesDestinationNodeMap ==
  [][ (pc = "executed" /\ pc' = "rolledback") =>
        /\ nodeMaps'[destSceneId] =
             (IF HasNodeMap(nodeMaps, destSceneId) THEN EmptyMap
              ELSE hist.preMaps[destSceneId])
        /\ \A s \in Scenes \ {destSceneId} : nodeMaps'[s] = nodeMaps[s]
        /\ \A i \in 1..Len(hist.registered) :
             hist.registered[i].key \notin DOMAIN nodeMaps'[destSceneId] ]_vars

C8_Witness ==
  /\ pc = "rolledback"
  /\ destSceneId # SrcScene
  /\ HasNodeMap(hist.preMaps, destSceneId)
  /\ HasNodeMap(hist.preMaps, SrcScene)
  /\ Len(hist.registered) > 0
  /\ nodeMaps[destSceneId] = EmptyMap
  /\ nodeMaps[SrcScene] = hist.preMaps[SrcScene]

\* C9: after the first execute() the id table is a bijection between the
\* original nodes that were copied and the nodes execute() returned, with
\* one entry per copied node, and the returned list is in creation order.
C9_IdTableIsBijection ==
  (pc = "executed" /\ runs = 1) =>
    /\ DOMAIN nodeIdsMap = CopiedSet
    /\ Range(nodeIdsMap) = SeqToSet(insertedNodes)
    /\ Cardinality(Range(nodeIdsMap)) = Cardinality(DOMAIN nodeIdsMap)
    /\ Len(insertedNodes) = Len(hist.copied)
    /\ \A i \in 1..Len(insertedNodes) :
         /\ insertedNodes[i] = nodeIdsMap[hist.copied[i]]
         /\ insertedNodes[i] \in NodesOfScene(nodes, destSceneId)
                                   \ DOMAIN hist.preNodes
    /\ \A i \in 1..Len(insertedNodes), j \in 1..Len(insertedNodes) :
         i < j => insertedNodes[i] < insertedNodes[j]

C9_Witness ==
  /\ pc = "executed"
  /\ runs = 1
  /\ hist.preNodes[1].kind = "folder"
  /\ hist.preNodes[2].parent = 1
  /\ hist.preNodes[3].parent = 2
  /\ CopiedSet = {1, 2, 3}
  /\ Cardinality(DOMAIN nodeIdsMap) = 3
  /\ nodes[nodeIdsMap[3]].parent = nodeIdsMap[2]
  /\ nodes[nodeIdsMap[2]].parent = nodeIdsMap[1]

\* C10 (as claimed): whatever other actors do to the scene graph, the node
\* display assignment and dual output mode between construction and
\* execute(), execute() copies the nodes it would have copied right after
\* construction.
C10_CopiedSetFixedAtConstruction ==
  (pc = "executed" /\ runs = 1) => CopiedSet = SeqToSet(hist.immediate)

\* C10 (amended): the same, for every interleaving that leaves dual output
\* mode and the display assignment of the source scene's nodes as they were
\* at construction.
C10_CopiedSetFixedUnlessDualOutputChanges ==
  (/\ pc = "executed"
   /\ runs = 1
   /\ hist.mode = hist.ctorMode
   /\ hist.preMaps[SrcScene] = hist.ctorMap) => hist.copied = hist.immediate

C10_Witness ==
  /\ pc = "executed"
  /\ runs = 1
  /\ envSteps >= 2
  /\ hist.mode = hist.ctorMode
  /\ hist.preMaps[SrcScene] = hist.ctorMap
  /\ hist.preOrder[SrcScene] # << 1, 2, 3, 4 >>
  /\ Len(hist.copied) >= 1
  /\ Len(hist.copied) < Len(selectedIds)

\* C11: execute() takes the migration case exactly when, as execute() runs,
\* dual output mode is active and the source scene has no node map, and the
\* ordinary case otherwise; one case for the whole execution.
C11_MigrationDecidedAtExecute ==
  pc = "executed" =>
    /\ hist.branch \in {"migration", "ordinary"}
    /\ hist.branch = "migration"
         <=> (hist.mode /\ ~HasNodeMap(hist.preMaps, SrcScene))

\* C12: in the ordinary case with dual output mode off and a source scene
\* without a node map, execute() registers no node-map entry, leaves every
\* scene's node map unchanged and copies only nodes of the active display.
C12_VanillaCopyLeavesNodeMaps ==
  (/\ pc = "executed"
   /\ hist.branch = "ordinary"
   /\ ~hist.mode
   /\ ~HasNodeMap(hist.preMaps, SrcScene)) =>
    /\ hist.registered = << >>
    /\ nodeMaps = hist.preMaps
    /\ \A n \in CopiedSet :
         GetNodeDisplay(hist.preMaps, n, SrcScene) = ActiveDisplay

\* C13: execute(); rollback(); execute() leaves the same state as the first
\* execute() did: the same id table, the same destination nodes with the
\* same parents, the same order and the same node map of the destination.
C13_RedoReproducesFirstRun ==
  (pc = "executed" /\ runs >= 2) =>
    DestinationState(nodeIdsMap, nodes, order, nodeMaps) = hist.first
====
